---- MODULE Spec2Model ----
(***************************************************************************)
(* Model of the GitHub pipeline aggregation back end:                      *)
(*   backend/src/routes/github.js   (maybeAuth, ensureGitHubToken,         *)
(*                                   fetchLatestRun, GET /github/pipelines)*)
(*   backend/src/routes/pipeline.js (GET /pipelines, top-level)            *)
(*   backend/src/utils/crypto.js    (decrypt)                              *)
(* One request is followed from its arrival to its response.  Every await  *)
(* of the handlers is a position (pc); the answer of the database or of    *)
(* the remote API to the awaited call is chosen when the call returns and  *)
(* is recorded in the call log.                                            *)
(***************************************************************************)
EXTENDS Integers, Sequences, FiniteSets, TLC

\* ------------------------------------------------------------------ bounds
\* Largest number of repositories a listing returns.
MaxRepos == 2
\* The number of steps of a job the remote reports, at most.
MaxSteps == 3

\* ------------------------------------------------------- values of the model
\* JavaScript undefined/null where a string is expected.
NULL == "<undefined>"
\* JavaScript null where an object is expected.
NullRec == [isNull |-> TRUE]
\* e.response?.status of an error that carries no response (network error).
NoStatus == 0

\* JavaScript truthiness of a string-or-undefined value.
Truthy(s) == s # NULL /\ s # ""

\* a || b on string-or-undefined values.
Or(a, b) == IF Truthy(a) THEN a ELSE b

\* The tokens the sources can hold, one per source so that provenance shows.
DbTok == "pat_db"
HdrTok == "pat_header"
EnvTok == "pat_env"
OAuthTok == "gho_oauth"

UserId == "u1"
OrgName == "acme"

Routes == {"/github/pipelines", "/pipelines"}
\* The routes of github.js that list the jobs of a run.
JobRoutes == {"/github/run-jobs", "/github/job-log"}
\* The routes behind maybeAuth and ensureGitHubToken.
GhRoutes == {"/github/pipelines"} \cup JobRoutes

\* ------------------------------------------------------------ crypto.js
\* A stored payload `iv:tag:data`, as its three base64 parts.  tagOk says
\* whether the GCM tag authenticates data under KEY; plain is what data
\* deciphers to.
Payload(iv, tag, data, tagOk, plain) ==
    [iv |-> iv, tag |-> tag, data |-> data, tagOk |-> tagOk, plain |-> plain]

\* Variant of decrypt that does not let a failed authentication of the tag
\* stop it.
decrypt_Unauthenticated(p) ==
    IF p.iv = "" \/ p.tag = "" \/ p.data = "" THEN NULL
    ELSE p.plain

\* decrypt(payload): null when a part is missing or the decipher throws.
decrypt(p) ==
    IF p.iv = "" \/ p.tag = "" \/ p.data = "" THEN NULL
    ELSE IF ~p.tagOk THEN NULL
    ELSE p.plain

\* u?.github?.patEnc || '' : the values the user document can hold.
EmptyPayload == Payload("", "", "", FALSE, "")
PatEncValues ==
    { EmptyPayload,                                 \* patEnc null: ''
      Payload("iv", "tag", "ct", FALSE, DbTok),     \* tampered / other key
      Payload("iv", "tag", "=", TRUE, ""),          \* data decodes to nothing
      Payload("iv", "tag", "ct", TRUE, DbTok) }     \* encrypt(DbTok)

\* Outcomes of User.findById(req.userId).lean().
DbOutcomes ==
    { [kind |-> "throws", patEnc |-> EmptyPayload],
      [kind |-> "nouser", patEnc |-> EmptyPayload] }
    \cup { [kind |-> "user", patEnc |-> p] : p \in PatEncValues }

\* ------------------------------------------------------------ remote API
\* An axios failure: e.response?.status, whether the remote flags a rate
\* limit, e.response?.data?.message and e.message.
Err(status, rl, message, emessage) ==
    [status |-> status, rateLimited |-> rl, message |-> message, emessage |-> emessage]

Ok == Err(200, FALSE, NULL, NULL)

RemoteErrors ==
    { Err(401, FALSE, "Bad credentials", "Request failed with status code 401"),
      Err(403, FALSE, "Resource not accessible", "Request failed with status code 403"),
      Err(403, TRUE, "API rate limit exceeded", "Request failed with status code 403"),
      Err(404, FALSE, "Not Found", "Request failed with status code 404"),
      Err(409, FALSE, "Git Repository is empty.", "Request failed with status code 409"),
      Err(429, TRUE, "secondary rate limit", "Request failed with status code 429"),
      Err(500, FALSE, NULL, "Request failed with status code 500"),
      Err(NoStatus, FALSE, NULL, "socket hang up") }

\* The failures drawn for the latest-run call: one the per-repository catch
\* skips, a rate limit, a server error and a network error.
RunErrors == { e \in RemoteErrors : e.status \in {404, 429, 500, NoStatus} }

\* per_page of the repository listings, on the scale of the model: the
\* longest list a listing call returns is a full page.
PageSize == MaxRepos

\* Repositories of the remote, in the order its listings return them.  The
\* second one carries no owner object.
RepoNames == <<"A", "B", "C", "D">>
RepoAt(i) == [name |-> RepoNames[i], owner |-> IF i % 2 = 1 THEN "octo" ELSE NULL]
RepoList(n) == [i \in 1..n |-> RepoAt(i)]
RepoLists == { RepoList(n) : n \in 0..MaxRepos }

\* Workflows of a repository, in listed order; ids are unique per remote.
\* Repositories A, C have two workflow files and B, D one; a listing returns
\* them all, or none when the repository defines no workflow.
WfAt(i, j) == [id |-> 10 * i + j, name |-> "wf"]
WfCount(i) == 1 + (i % 2)
WfList(i, n) == [j \in 1..n |-> WfAt(i, j)]
WfLists(i) == { <<>>, WfList(i, WfCount(i)) }

\* workflow_runs of a workflow with per_page=1: no run, or the latest one.
RawRun(id) == [id |-> id, status |-> "completed", conclusion |-> "success"]
RunLists(wfId) == { <<>>, <<RawRun(100 + wfId)>> }

\* ------------------------------------------- GET .../runs/{runId}/jobs
\* A step of a job as the remote reports it.
RawStep(n) ==
    [number |-> n, name |-> "step", status |-> "completed", conclusion |-> "success"]

\* The orders in which the remote may report steps 1..n.
Perms(n) == { f \in [1..n -> 1..n] : \A i, j \in 1..n : f[i] = f[j] => i = j }
StepLists ==
    UNION { { [i \in 1..n |-> RawStep(f[i])] : f \in Perms(n) } : n \in 0..MaxSteps }

\* A job as the remote reports it; a job without a `steps` property has none.
RawJob(id) ==
    [id |-> id, name |-> "build", status |-> "completed", conclusion |-> "failure",
     html_url |-> "https://github.test/job", runner_name |-> "ubuntu"]
RawJobWithSteps(id, steps) ==
    [id |-> id, name |-> "build", status |-> "completed", conclusion |-> "failure",
     html_url |-> "https://github.test/job", runner_name |-> "ubuntu",
     steps |-> steps]

\* data.jobs: no job, job 501 with its steps in some order, or jobs 501 and
\* 502 in either order, 502 without a `steps` property.
JobLists ==
    {<<>>}
    \cup { <<RawJobWithSteps(501, st)>> : st \in StepLists }
    \cup { <<RawJobWithSteps(501, st), RawJob(502)>> : st \in StepLists }
    \cup { <<RawJob(502), RawJobWithSteps(501, st)>> : st \in StepLists }

\* The body of a jobs answer: `jobs` and `total_count`, either of which the
\* remote may leave out.
JobsData ==
    { [total_count |-> Len(js), jobs |-> js] : js \in JobLists }
    \cup { [jobs |-> js] : js \in JobLists }
    \cup { [total_count |-> 0] }

\* req.query of the job routes.
NoRun == [runId |-> NULL, run_id |-> NULL, id |-> NULL]
QueryRuns ==
    { NoRun, [NoRun EXCEPT !.runId = "7"], [NoRun EXCEPT !.run_id = "7"],
      [NoRun EXCEPT !.id = "7"] }
QueryJobIds == {NULL, "501", "0502", "999"}

VARIABLES
    route,          \* the route the request is for
    reqUser,        \* req.user: NullRec or [_id, accessToken]
    sessionUser,    \* req.session?.passport?.user
    header,         \* req.headers['x-github-token']
    envPat,         \* process.env.GITHUB_PAT
    qOrg,           \* req.query.org
    qIncludeRuns,   \* req.query.includeRuns
    qOwner,         \* req.query.owner
    qRepo,          \* req.query.repo
    qRun,           \* req.query.runId, req.query.run_id and req.query.id
    qJobId,         \* req.query.jobId
    pc,             \* position of the request
    userId,         \* req.userId
    dbResult,       \* what User.findById returned (NullRec before the lookup)
    token,          \* the token selected (local `token`)
    source,         \* its provenance (local `source`)
    githubToken,    \* req.githubToken
    githubTokenSource, \* req.githubTokenSource
    nextCalls,      \* how often ensureGitHubToken called next()
    calls,          \* log of the remote calls that returned
    repos,          \* reposRes.data
    repoIdx,        \* index of the repository the loop is at
    wfs,            \* wfRes.data.workflows of that repository
    wfIdx,          \* index of the workflow the inner loop is at
    pipelines,      \* the accumulated list
    responses,      \* the responses sent, in order
    deadlineAt,     \* the number of calls that had returned when the
                    \* caller's deadline or cancellation signal fired, -1
                    \* while it has not
    turn,           \* which of the requests in progress the variables
                    \* above belong to (1 when there is one request)
    other,          \* the request, its locals and its position, of the
                    \* other request in progress; NullRec when there is none
    earlier         \* what an earlier request with the same inputs was
                    \* answered by the database and the remote and answered
                    \* itself; NullRec for the first request

vars == <<route, reqUser, sessionUser, header, envPat, qOrg, qIncludeRuns,
          qOwner, qRepo, qRun, qJobId, pc,
          userId, dbResult, token, source, githubToken, githubTokenSource,
          nextCalls, calls, repos, repoIdx, wfs, wfIdx, pipelines, responses,
          deadlineAt, turn, other, earlier>>

inputs == <<route, reqUser, sessionUser, header, envPat, qOrg, qIncludeRuns,
            qOwner, qRepo, qRun, qJobId>>
authVars == <<userId, dbResult, token, source, githubToken, githubTokenSource, nextCalls>>
loopVars == <<repos, repoIdx, wfs, wfIdx, pipelines>>

ReqUsers == { NullRec,
              [_id |-> UserId, accessToken |-> NULL],
              [_id |-> UserId, accessToken |-> OAuthTok] }

\* A request that has not been handled yet.
NotStarted ==
    /\ pc = "start"
    /\ userId = NULL
    /\ dbResult = NullRec
    /\ token = NULL
    /\ source = "none"
    /\ githubToken = NULL
    /\ githubTokenSource = NULL
    /\ nextCalls = 0
    /\ calls = <<>>
    /\ repos = <<>>
    /\ repoIdx = 0
    /\ wfs = <<>>
    /\ wfIdx = 0
    /\ pipelines = <<>>
    /\ responses = <<>>
    /\ deadlineAt = -1
    /\ earlier = NullRec

\* One request is in progress.
Alone ==
    /\ turn = 1
    /\ other = NullRec

Init ==
    /\ Alone
    /\ route \in Routes
    /\ reqUser \in ReqUsers
    /\ sessionUser \in {NULL, UserId}
    /\ reqUser # NullRec => sessionUser = UserId
    /\ header \in {NULL, "", HdrTok}
    /\ envPat \in {NULL, EnvTok}
    /\ qOrg \in {NULL, OrgName}
    /\ qIncludeRuns \in {NULL, "false", "FALSE"}
    /\ qOwner = NULL
    /\ qRepo = NULL
    /\ qRun = NoRun
    /\ qJobId = NULL
    /\ NotStarted

\* A request for one of the job routes; /github/job-log reads runId and
\* jobId only, /github/run-jobs reads no jobId.
InitJobs ==
    /\ Alone
    /\ route \in JobRoutes
    /\ reqUser \in ReqUsers
    /\ sessionUser \in {NULL, UserId}
    /\ reqUser # NullRec => sessionUser = UserId
    /\ header \in {NULL, "", HdrTok}
    /\ envPat \in {NULL, EnvTok}
    /\ qOrg = NULL
    /\ qIncludeRuns = NULL
    /\ qOwner \in {NULL, "octo"}
    /\ qRepo \in {NULL, "A"}
    /\ qRun \in QueryRuns
    /\ qJobId \in QueryJobIds
    /\ route = "/github/run-jobs" => qJobId = NULL
    /\ NotStarted

\* ------------------------------------------------------------ helpers
\* One entry of the call log: the API called, the token in the Authorization
\* header, the repository and workflow the URL names, how the call ended
\* (Ok or the error) and the list a successful call returned.
Call(api, tok, repo, wf, res, data) ==
    [api |-> api, token |-> tok, repo |-> repo, wf |-> wf, res |-> res, data |-> data]

\* A response: res.status(status).json({error}) or res.json(body).
ErrorResponse(status, msg) == [status |-> status, error |-> msg, body |-> <<>>]
JsonResponse(body) == [status |-> 200, error |-> NULL, body |-> body]

\* The remote's state does not change between two requests: a call an
\* earlier request made with the same token for the same URL gets the same
\* answer again.
RemoteAnswers(api, tok, repo, wf, r, data) ==
    earlier # NullRec =>
       \A i \in DOMAIN earlier.calls :
          (/\ earlier.calls[i].api = api
           /\ earlier.calls[i].token = tok
           /\ earlier.calls[i].repo = repo
           /\ earlier.calls[i].wf = wf) =>
             /\ earlier.calls[i].res = r
             /\ earlier.calls[i].data = data

\* Nor does the database: User.findById ends as it did before.
DbAnswers(db) == (earlier # NullRec /\ earlier.db # NullRec) => db = earlier.db

\* Variant of a handler's exit that returns without sending anything.
Respond_NotSent(r) ==
    /\ responses' = responses
    /\ pc' = "done"

\* The handler's position after res...json(...): nothing more is awaited.
Respond(r) ==
    /\ responses' = Append(responses, r)
    /\ pc' = "done"

\* ------------------------------------------------------------ maybeAuth
MaybeAuthUserId(u, s) ==
    IF u # NullRec /\ Truthy(u._id) THEN u._id
    ELSE IF Truthy(s) THEN s
    ELSE NULL

\* ---------------------------------------------------- ensureGitHubToken
\* The PAT the database step yields: decrypt(u?.github?.patEnc || ''), or
\* nothing when the lookup throws (the catch only logs).
StoredPat(db) ==
    IF db.kind = "throws" THEN NULL
    ELSE IF db.kind = "user" THEN decrypt(db.patEnc)
    ELSE decrypt(EmptyPayload)

\* Variant of the selection that consults the header before the database.
SelectToken_HeaderFirst(pat, hdr, envv) ==
    IF Truthy(hdr) THEN [token |-> hdr, source |-> "header"]
    ELSE IF Truthy(pat) THEN [token |-> pat, source |-> "db"]
    ELSE IF Truthy(envv) THEN [token |-> envv, source |-> "env"]
    ELSE [token |-> NULL, source |-> "none"]

\* Variant of the selection that consults the environment before the header.
SelectToken_EnvFirst(pat, hdr, envv) ==
    IF Truthy(pat) THEN [token |-> pat, source |-> "db"]
    ELSE IF Truthy(envv) THEN [token |-> envv, source |-> "env"]
    ELSE IF Truthy(hdr) THEN [token |-> hdr, source |-> "header"]
    ELSE [token |-> NULL, source |-> "none"]

\* Variant of the selection that labels the header's token 'env'.
SelectToken_MislabelledHeader(pat, hdr, envv) ==
    IF Truthy(pat) THEN [token |-> pat, source |-> "db"]
    ELSE IF Truthy(hdr) THEN [token |-> hdr, source |-> "env"]
    ELSE IF Truthy(envv) THEN [token |-> envv, source |-> "env"]
    ELSE [token |-> NULL, source |-> "none"]

\* Steps 1) to 3): the first source that holds a token.
SelectToken(pat, hdr, envv) ==
    IF Truthy(pat) THEN [token |-> pat, source |-> "db"]
    ELSE IF Truthy(hdr) THEN [token |-> hdr, source |-> "header"]
    ELSE IF Truthy(envv) THEN [token |-> envv, source |-> "env"]
    ELSE [token |-> NULL, source |-> "none"]

\* The 401 of a request for which no source holds a token.
MissingTokenResponse == ErrorResponse(401, "Missing token")

\* Variant of the self-test catch that answers like the route handlers'
\* catch: err.response?.status || 500.
BadCredentialsResponse_Passthrough(e) ==
    ErrorResponse(IF e.status # NoStatus THEN e.status ELSE 500, "Bad credentials")

\* The 401 of a token that fails the self-test.
BadCredentialsResponse(e) == ErrorResponse(401, "Bad credentials")

\* String(req.query.includeRuns ?? 'true').toLowerCase() !== 'false'
ToLowerCase(s) ==
    CASE s = "FALSE" -> "false"
      [] s = "False" -> "false"
      [] s = "TRUE" -> "true"
      [] OTHER -> s
\* Variant that takes the query string for a boolean: Boolean(q ?? true).
IncludeRuns_Truthy(q) == q = NULL \/ Truthy(q)

IncludeRuns(q) == ToLowerCase(IF q = NULL THEN "true" ELSE q) # "false"

\* Variant that keeps the resolved token in a variable of the module instead
\* of on req: a request in progress sends the token the other request
\* resolved.
AggToken_ModuleScope ==
    IF other # NullRec /\ other.token \notin {NULL, ""} THEN other.token
    ELSE IF route = "/github/pipelines" THEN githubToken ELSE token

\* The token the aggregation sends: req.githubToken on /github/pipelines,
\* the local `token` on top-level /pipelines.
AggToken == IF route = "/github/pipelines" THEN githubToken ELSE token

\* Variant of the selection without the `if (!token)` guard: the self-test
\* is requested whatever was selected.
AfterLookup_NoGuard(pat) ==
    /\ token' = IF Truthy(pat) THEN pat ELSE Or(header, envPat)
    /\ source' = "none"
    /\ pc' = "selftest"
    /\ UNCHANGED responses

\* From the token selection to the self-test request (lines 60-87).
AfterLookup(pat) ==
    LET sel == SelectToken(pat, header, envPat) IN
    /\ token' = sel.token
    /\ source' = sel.source
    /\ IF ~Truthy(sel.token)
       THEN Respond(MissingTokenResponse)
       ELSE /\ pc' = "selftest"
            /\ UNCHANGED responses

\* maybeAuth, then ensureGitHubToken up to its first await.
GhStart ==
    /\ pc = "start"
    /\ route \in GhRoutes
    /\ LET uid == MaybeAuthUserId(reqUser, sessionUser) IN
       /\ userId' = uid
       /\ IF Truthy(uid)
          THEN /\ pc' = "db"
               /\ UNCHANGED <<token, source, responses>>
          ELSE AfterLookup(NULL)
    /\ UNCHANGED <<inputs, earlier, deadlineAt, turn, other, dbResult, githubToken, githubTokenSource, nextCalls,
                   calls, loopVars>>

\* User.findById returns or throws.
GhDbReturn ==
    /\ pc = "db"
    /\ \E db \in DbOutcomes :
          /\ DbAnswers(db)
          /\ dbResult' = db
          /\ AfterLookup(StoredPat(db))
    /\ UNCHANGED <<inputs, earlier, deadlineAt, turn, other, userId, githubToken, githubTokenSource, nextCalls,
                   calls, loopVars>>

\* Variant that starts the aggregation whatever org is.
PipelinesStart_NoOrgCheck ==
    /\ pc' = "orgrepos"
    /\ UNCHANGED responses

\* The route handler of /github/pipelines up to its first await.
PipelinesStart ==
    IF ~Truthy(qOrg)
    THEN Respond(ErrorResponse(400, "Organization name is required"))
    ELSE /\ pc' = "orgrepos"
         /\ UNCHANGED responses

\* req.query.runId || req.query.run_id || req.query.id
RunIdOf(q) == Or(Or(q.runId, q.run_id), q.id)

\* The route handler of /github/run-jobs up to its first await; "-" stands
\* for the dash the message shows in place of a missing parameter.
RunJobsStart ==
    IF ~Truthy(qOwner) \/ ~Truthy(qRepo) \/ ~Truthy(RunIdOf(qRun))
    THEN Respond(ErrorResponse(400,
            "owner/repo/runId required (owner: " \o Or(qOwner, "-")
               \o ", repo: " \o Or(qRepo, "-") \o ")"))
    ELSE /\ pc' = "jobs"
         /\ UNCHANGED responses

\* The route handler of /github/job-log up to its first await.
JobLogStart ==
    IF ~Truthy(qOwner) \/ ~Truthy(qRepo) \/ ~Truthy(qRun.runId) \/ ~Truthy(qJobId)
    THEN Respond(ErrorResponse(400, "owner, repo, runId and jobId are required"))
    ELSE /\ pc' = "jobs"
         /\ UNCHANGED responses

\* next(): the handler of the route the request is for.
GhHandlerStart ==
    CASE route = "/github/run-jobs" -> RunJobsStart
      [] route = "/github/job-log" -> JobLogStart
      [] OTHER -> PipelinesStart

\* GET /user returns: next() on success, 401 otherwise.
GhSelfTestReturn ==
    /\ pc = "selftest"
    /\ \E r \in {Ok} \cup RemoteErrors :
          /\ RemoteAnswers("user", token, NULL, 0, r, <<>>)
          /\ calls' = Append(calls, Call("user", token, NULL, 0, r, <<>>))
          /\ IF r = Ok
             THEN /\ githubToken' = token
                  /\ githubTokenSource' = source
                  /\ nextCalls' = nextCalls + 1
                  /\ GhHandlerStart
             ELSE /\ Respond(BadCredentialsResponse(r))
                  /\ UNCHANGED <<githubToken, githubTokenSource, nextCalls>>
    /\ UNCHANGED <<inputs, earlier, deadlineAt, turn, other, userId, dbResult, token, source, loopVars>>

\* ------------------------------------------------- pipeline.js GET /
\* Variant that reads the header before the OAuth session token.
TopToken_HeaderFirst(u, hdr, envv) ==
    Or(Or(hdr, IF u # NullRec THEN u.accessToken ELSE NULL), envv)

\* tokenFromOAuth || tokenFromHeader || process.env.GITHUB_PAT
TopToken(u, hdr, envv) ==
    Or(Or(IF u # NullRec THEN u.accessToken ELSE NULL, hdr), envv)

TopStart ==
    /\ pc = "start"
    /\ route = "/pipelines"
    /\ IF ~Truthy(qOrg)
       THEN /\ Respond(ErrorResponse(400, "Organization is required"))
            /\ UNCHANGED token
       ELSE LET t == TopToken(reqUser, header, envPat) IN
            /\ token' = t
            /\ IF ~Truthy(t)
               THEN Respond(ErrorResponse(401, "GitHub token required (oauth/header/.env)"))
               ELSE /\ pc' = "orgrepos"
                    /\ UNCHANGED responses
    /\ UNCHANGED <<inputs, earlier, deadlineAt, turn, other, userId, dbResult, source, githubToken, githubTokenSource,
                   nextCalls, calls, loopVars>>

\* ------------------------------------------------- the aggregation
\* err.response?.status || 500
ErrorStatus(e) == IF e.status # NoStatus THEN e.status ELSE 500

\* err.response?.data?.message || err.message
ErrorMessage(e) == Or(e.message, e.emessage)

\* The outer catch of GET /github/pipelines.
CatchGithub(e) == ErrorResponse(ErrorStatus(e), ErrorMessage(e))

\* Variant that answers 500 for whatever is not a 404.
CatchTop_NoPassthrough(e) ==
    IF e.status = 404
    THEN ErrorResponse(404, "Organization or user 'acme' not found")
    ELSE ErrorResponse(500, ErrorMessage(e))

\* The outer catch of top-level GET /pipelines: a 404 gets its own message.
CatchTop(e) ==
    IF e.status = 404
    THEN ErrorResponse(404, "Organization or user 'acme' not found")
    ELSE ErrorResponse(ErrorStatus(e), ErrorMessage(e))

Catch(e) == IF route = "/github/pipelines" THEN CatchGithub(e) ELSE CatchTop(e)

\* Variant that also retries a forbidden organization listing.
FallsBackToUser_Forbidden(e) == e.status \in {403, 404}

\* e.response?.status === 404 : the organization listing is retried as a
\* user listing.
FallsBackToUser(e) == e.status = 404

\* Variant of the skip list without 404.
Absorbed_No404(e) == e.status \in {403, 409}

\* Variant of the skip list without 409.
Absorbed_No409(e) == e.status \in {403, 404}

\* Variant of the skip list that also swallows 429.
Absorbed_With429(e) == e.status \in {403, 404, 409, 429}

\* [403, 404, 409].includes(e.response?.status) : the repository is skipped.
Absorbed(e) == e.status \in {403, 404, 409}

\* repo.owner?.login || org
Owner(repo, org) == Or(repo.owner, org)

\* Variant of fetchLatestRun without the `if (!run) return null` guard: an
\* object of undefined fields comes back for an empty list.
NormalizeRun_NoGuard(runs) ==
    IF Len(runs) = 0
    THEN [runId |-> NULL, status |-> NULL, conclusion |-> NULL]
    ELSE [runId |-> runs[1].id, status |-> runs[1].status,
          conclusion |-> runs[1].conclusion]

\* fetchLatestRun: the first run of the list, renamed, or null.
NormalizeRun(runs) ==
    IF Len(runs) = 0 THEN NullRec
    ELSE [runId |-> runs[1].id, status |-> runs[1].status,
          conclusion |-> runs[1].conclusion]

\* The object pushed for one workflow.
Pipeline(owner, repoName, wf, latest) ==
    [owner |-> owner, repo |-> repoName, workflowId |-> wf.id, name |-> wf.name,
     latest_run |-> latest]

\* Variant that puts the new entry in front: pipelines.unshift(p).
PushPipeline_Unshift(pl, p) == <<p>> \o pl

\* Variant that pushes every entry twice.
PushPipeline_Twice(pl, p) == Append(Append(pl, p), p)

\* pipelines.push(p)
PushPipeline(pl, p) == Append(pl, p)

\* The inner loop when includeRuns is false: no await, one push per workflow.
RECURSIVE PushAll(_, _, _, _, _)
PushAll(pl, owner, repoName, ws, j) ==
    IF j > Len(ws) THEN pl
    ELSE PushAll(PushPipeline(pl, Pipeline(owner, repoName, ws[j], NullRec)),
                 owner, repoName, ws, j + 1)

\* Variant with the array declared at module scope: it still holds what the
\* earlier request pushed.
NewPipelines_ModuleScope ==
    IF earlier # NullRec /\ earlier.responses[1].status = 200
    THEN earlier.responses[1].body
    ELSE <<>>

\* const pipelines = [] : a new array for every request.
NewPipelines == <<>>

\* Variant of the loop that walks the listing from its end:
\* for (const repo of reposRes.data.reverse()).
StartRepo_Reversed(rs, i, pl) ==
    LET list == IF i = 1 THEN [k \in 1..Len(rs) |-> rs[Len(rs) + 1 - k]] ELSE rs IN
    /\ repos' = list
    /\ repoIdx' = i
    /\ wfs' = <<>>
    /\ wfIdx' = 0
    /\ pipelines' = pl
    /\ IF i > Len(list)
       THEN Respond(JsonResponse(pl))
       ELSE /\ pc' = "workflows"
            /\ UNCHANGED responses

\* Variant of the loop head that goes back to the repository it just left
\* instead of on to the next one.
StartRepo_NoAdvance(rs, i, pl) ==
    /\ repos' = rs
    /\ repoIdx' = IF i > 1 THEN i - 1 ELSE i
    /\ wfs' = <<>>
    /\ wfIdx' = 0
    /\ pipelines' = pl
    /\ IF rs = <<>>
       THEN Respond(JsonResponse(pl))
       ELSE /\ pc' = "workflows"
            /\ UNCHANGED responses

\* The head of the for-loop over reposRes.data at index i with the list pl
\* accumulated: res.json(pipelines) after the last repository, the workflow
\* listing of repository i otherwise.
StartRepo(rs, i, pl) ==
    /\ repos' = rs
    /\ repoIdx' = i
    /\ wfs' = <<>>
    /\ wfIdx' = 0
    /\ pipelines' = pl
    /\ IF i > Len(rs)
       THEN Respond(JsonResponse(pl))
       ELSE /\ pc' = "workflows"
            /\ UNCHANGED responses

\* reposRes.data of a listing: any of the remote's listings for a request
\* on its own; the account two requests in progress ask for holds at most
\* one repository.
Listings == IF other = NullRec THEN RepoLists ELSE { RepoList(n) : n \in 0..1 }

\* GET /orgs/{org}/repos returns.
OrgReposReturn ==
    /\ pc = "orgrepos"
    /\ \E r \in {Ok} \cup RemoteErrors, rs \in Listings :
          /\ r # Ok => rs = <<>>
          /\ RemoteAnswers("orgrepos", AggToken, qOrg, 0, r, rs)
          /\ calls' = Append(calls, Call("orgrepos", AggToken, qOrg, 0, r, rs))
          /\ IF r = Ok
             THEN StartRepo(rs, 1, NewPipelines)
             ELSE IF FallsBackToUser(r)
             THEN /\ pc' = "userrepos"
                  /\ UNCHANGED <<responses, loopVars>>
             ELSE /\ Respond(Catch(r))
                  /\ UNCHANGED loopVars
    /\ UNCHANGED <<inputs, earlier, deadlineAt, turn, other, authVars>>

\* GET /users/{org}/repos returns.
UserReposReturn ==
    /\ pc = "userrepos"
    /\ \E r \in {Ok} \cup RemoteErrors, rs \in Listings :
          /\ r # Ok => rs = <<>>
          /\ RemoteAnswers("userrepos", AggToken, qOrg, 0, r, rs)
          /\ calls' = Append(calls, Call("userrepos", AggToken, qOrg, 0, r, rs))
          /\ IF r = Ok
             THEN StartRepo(rs, 1, NewPipelines)
             ELSE /\ Respond(Catch(r))
                  /\ UNCHANGED loopVars
    /\ UNCHANGED <<inputs, earlier, deadlineAt, turn, other, authVars>>

\* GET /repos/{owner}/{repo}/actions/workflows returns.
WorkflowsReturn ==
    /\ pc = "workflows"
    /\ LET repo == repos[repoIdx]
           owner == Owner(repo, qOrg) IN
       \E r \in {Ok} \cup RemoteErrors, ws \in WfLists(repoIdx) :
          /\ r # Ok => ws = <<>>
          /\ RemoteAnswers("workflows", AggToken, repo.name, 0, r, ws)
          /\ calls' = Append(calls, Call("workflows", AggToken, repo.name, 0, r, ws))
          /\ IF r = Ok
             THEN IF Len(ws) = 0
                  THEN StartRepo(repos, repoIdx + 1, pipelines)
                  ELSE IF IncludeRuns(qIncludeRuns)
                  THEN /\ pc' = "runs"
                       /\ wfs' = ws
                       /\ wfIdx' = 1
                       /\ UNCHANGED <<repos, repoIdx, pipelines, responses>>
                  ELSE StartRepo(repos, repoIdx + 1,
                                 PushAll(pipelines, owner, repo.name, ws, 1))
             ELSE IF Absorbed(r)
             THEN StartRepo(repos, repoIdx + 1, pipelines)
             ELSE /\ Respond(Catch(r))
                  /\ UNCHANGED loopVars
    /\ UNCHANGED <<inputs, earlier, deadlineAt, turn, other, authVars>>

\* fetchLatestRun's GET .../workflows/{id}/runs?per_page=1 returns; its
\* failure is thrown inside the per-repository try.
RunsReturn ==
    /\ pc = "runs"
    /\ LET repo == repos[repoIdx]
           owner == Owner(repo, qOrg)
           wf == wfs[wfIdx] IN
       \E r \in {Ok} \cup RunErrors, runs \in RunLists(wf.id) :
          /\ r # Ok => runs = <<>>
          /\ RemoteAnswers("runs", AggToken, repo.name, wf.id, r, runs)
          /\ calls' = Append(calls, Call("runs", AggToken, repo.name, wf.id, r, runs))
          /\ IF r = Ok
             THEN LET pl == PushPipeline(pipelines,
                               Pipeline(owner, repo.name, wf, NormalizeRun(runs))) IN
                  IF wfIdx < Len(wfs)
                  THEN /\ wfIdx' = wfIdx + 1
                       /\ pipelines' = pl
                       /\ UNCHANGED <<pc, repos, repoIdx, wfs, responses>>
                  ELSE StartRepo(repos, repoIdx + 1, pl)
             ELSE IF Absorbed(r)
             THEN StartRepo(repos, repoIdx + 1, pipelines)
             ELSE /\ Respond(Catch(r))
                  /\ UNCHANGED loopVars
    /\ UNCHANGED <<inputs, earlier, deadlineAt, turn, other, authVars>>

\* ------------------------------------------------- /github/run-jobs
\* data.jobs || [] and j.steps || []
JobsOf(data) == IF "jobs" \in DOMAIN data THEN data.jobs ELSE <<>>
StepsOf(j) == IF "steps" \in DOMAIN j THEN j.steps ELSE <<>>

\* Variant that returns the steps by step number.
MapSteps_Sorted(steps) ==
    [i \in 1..Len(steps) |->
       LET s == CHOOSE t \in { steps[k] : k \in 1..Len(steps) } :
                   Cardinality({ k \in 1..Len(steps) :
                                    steps[k].number <= t.number }) = i
       IN [number |-> s.number, name |-> s.name, status |-> s.status,
           conclusion |-> s.conclusion]]

\* (j.steps || []).map(s => ({number, name, status, conclusion, ...}))
MapSteps(steps) ==
    [i \in 1..Len(steps) |->
       [number |-> steps[i].number, name |-> steps[i].name,
        status |-> steps[i].status, conclusion |-> steps[i].conclusion]]

\* (data.jobs || []).map(j => ({id, name, status, conclusion, url, steps}))
MapJobs(jobs) ==
    [i \in 1..Len(jobs) |->
       [id |-> jobs[i].id, name |-> jobs[i].name, status |-> jobs[i].status,
        conclusion |-> jobs[i].conclusion, url |-> jobs[i].html_url,
        steps |-> MapSteps(StepsOf(jobs[i]))]]

\* data.total_count || jobs.length
TotalCount(data, jobs) ==
    IF "total_count" \in DOMAIN data /\ data.total_count # 0
    THEN data.total_count
    ELSE Len(jobs)

\* res.json({ total_count, jobs })
RunJobsResponse(data) ==
    LET jobs == MapJobs(JobsOf(data)) IN
    JsonResponse([total_count |-> TotalCount(data, jobs), jobs |-> jobs])

\* GET .../actions/runs/{runId}/jobs?per_page=100 returns to /github/run-jobs.
RunJobsReturn ==
    /\ pc = "jobs"
    /\ route = "/github/run-jobs"
    /\ \E r \in {Ok} \cup RemoteErrors, data \in JobsData \cup {NullRec} :
          /\ r = Ok <=> data # NullRec
          /\ calls' = Append(calls,
                          Call("jobs", githubToken, qRepo, RunIdOf(qRun), r, data))
          /\ IF r = Ok
             THEN Respond(RunJobsResponse(data))
             ELSE Respond(CatchGithub(r))
    /\ UNCHANGED <<inputs, earlier, deadlineAt, turn, other, authVars, loopVars>>

\* ------------------------------------------------- /github/job-log
\* String(j.id) === String(jobId)
SameId(id, jobId) == ToString(id) = jobId

\* (data.jobs || []).find(j => String(j.id) === String(jobId)): the first
\* such job, or nothing.
FindJob(jobs, jobId) ==
    LET found == { i \in 1..Len(jobs) : SameId(jobs[i].id, jobId) } IN
    IF found = {} THEN NullRec
    ELSE jobs[CHOOSE i \in found : \A k \in found : i <= k]

\* The lines pushed for a job, in order; lines.join('\n') is their text.
JobLine(job) ==
    [line |-> "Job:", name |-> job.name, status |-> job.status,
     conclusion |-> job.conclusion]
StartedLine(job) == [line |-> "Started:"]
BlankLine == [line |-> ""]
StepsLine == [line |-> "Steps:"]
StepLine(s) ==
    [line |-> " - #", number |-> s.number, name |-> s.name, status |-> s.status,
     conclusion |-> s.conclusion]
NoteLine ==
    [line |-> "(Raw log not fetched: GH API returns ZIP; this is a synthesized summary text.)"]

\* for (const s of job.steps || []) lines.push(...)
StepLines(steps) == [i \in 1..Len(steps) |-> StepLine(steps[i])]

LogLines(job) ==
    <<JobLine(job), StartedLine(job), BlankLine, StepsLine>>
       \o StepLines(StepsOf(job)) \o <<BlankLine, NoteLine>>

\* Variant that answers 404 when the job is not in the list.
NoJobResponse_NotFound == ErrorResponse(404, "(No job found to assemble log)")

\* res.json({ text: '(No job found to assemble log)' })
NoJobResponse == JsonResponse([text |-> <<[line |-> "(No job found to assemble log)"]>>])

JobLogResponse(data, jobId) ==
    LET job == FindJob(JobsOf(data), jobId) IN
    IF job = NullRec THEN NoJobResponse
    ELSE JsonResponse([text |-> LogLines(job)])

\* GET .../actions/runs/{runId}/jobs?per_page=100 returns to /github/job-log.
JobLogReturn ==
    /\ pc = "jobs"
    /\ route = "/github/job-log"
    /\ \E r \in {Ok} \cup RemoteErrors, data \in JobsData \cup {NullRec} :
          /\ r = Ok <=> data # NullRec
          /\ calls' = Append(calls,
                          Call("jobs", githubToken, qRepo, qRun.runId, r, data))
          /\ IF r = Ok
             THEN Respond(JobLogResponse(data, qJobId))
             ELSE Respond(CatchGithub(r))
    /\ UNCHANGED <<inputs, earlier, deadlineAt, turn, other, authVars, loopVars>>

Next ==
    \/ GhStart
    \/ GhDbReturn
    \/ GhSelfTestReturn
    \/ TopStart
    \/ OrgReposReturn
    \/ UserReposReturn
    \/ WorkflowsReturn
    \/ RunsReturn

Spec == Init /\ [][Next]_vars

\* A second request with the same inputs arrives after the first was
\* answered: the route's middleware and handler run again from the top, with
\* nothing kept from the first request but what the database and the remote
\* hold.
SecondRequest ==
    /\ pc = "done"
    /\ route \in {"/github/pipelines", "/pipelines"}
    /\ earlier = NullRec
    /\ earlier' = [calls |-> calls, db |-> dbResult, responses |-> responses]
    /\ pc' = "start"
    /\ userId' = NULL
    /\ dbResult' = NullRec
    /\ token' = NULL
    /\ source' = "none"
    /\ githubToken' = NULL
    /\ githubTokenSource' = NULL
    /\ nextCalls' = 0
    /\ calls' = <<>>
    /\ repos' = <<>>
    /\ repoIdx' = 0
    /\ wfs' = <<>>
    /\ wfIdx' = 0
    /\ pipelines' = <<>>
    /\ responses' = <<>>
    /\ UNCHANGED <<inputs, deadlineAt, turn, other>>

NextTwice ==
    \/ Next
    \/ SecondRequest

\* The two requests are made by an anonymous caller or by a signed-in user
\* with an OAuth token, with or without the x-github-token header, on a
\* server whose GITHUB_PAT is set: every source of a credential is used by
\* some of them.
InitTwice ==
    /\ Init
    /\ reqUser \in {NullRec, [_id |-> UserId, accessToken |-> OAuthTok]}
    /\ reqUser = NullRec => sessionUser = NULL
    /\ header \in {NULL, HdrTok}
    /\ envPat = EnvTok

SpecTwice == InitTwice /\ [][NextTwice]_vars

\* The request that was answered by one aggregation route is sent to the
\* other one: same headers, session, query and environment, the database and
\* the remote as they were.
OtherRoute ==
    /\ pc = "done"
    /\ route \in {"/github/pipelines", "/pipelines"}
    /\ earlier = NullRec
    /\ earlier' = [calls |-> calls, db |-> dbResult, responses |-> responses,
                   route |-> route]
    /\ route' = IF route = "/github/pipelines" THEN "/pipelines"
                                                ELSE "/github/pipelines"
    /\ pc' = "start"
    /\ userId' = NULL
    /\ dbResult' = NullRec
    /\ token' = NULL
    /\ source' = "none"
    /\ githubToken' = NULL
    /\ githubTokenSource' = NULL
    /\ nextCalls' = 0
    /\ calls' = <<>>
    /\ repos' = <<>>
    /\ repoIdx' = 0
    /\ wfs' = <<>>
    /\ wfIdx' = 0
    /\ pipelines' = <<>>
    /\ responses' = <<>>
    /\ UNCHANGED <<reqUser, sessionUser, header, envPat, qOrg, qIncludeRuns,
                   qOwner, qRepo, qRun, qJobId, deadlineAt, turn, other>>

NextRoutes ==
    \/ Next
    \/ OtherRoute

\* The requests carry no req.user, first to either route, with or without
\* a session principal and the x-github-token header, on a server whose
\* GITHUB_PAT is set: top-level /pipelines resolves the header or else
\* GITHUB_PAT, and so does /github/pipelines unless the principal has a
\* usable stored credential.  The requests of a session principal are those
\* without the header and without runs.
InitRoutes ==
    /\ Init
    /\ reqUser = NullRec
    /\ header \in {NULL, HdrTok}
    /\ envPat = EnvTok
    /\ qIncludeRuns \in {NULL, "false"}
    /\ sessionUser = UserId => (header = NULL /\ qIncludeRuns = "false")

SpecRoutes == InitRoutes /\ [][NextRoutes]_vars

\* The caller's deadline passes, or the caller goes away, while a call of
\* the aggregation is awaited.  Neither route registers a listener, passes a
\* signal or a timeout to axios.get, or looks at the clock: the signal
\* changes nothing in the handler.
Deadline ==
    /\ pc \in {"orgrepos", "userrepos", "workflows", "runs"}
    /\ deadlineAt = -1
    /\ deadlineAt' = Len(calls)
    /\ UNCHANGED <<inputs, earlier, turn, other, pc, authVars, calls, loopVars,
                   responses>>

NextDeadline ==
    \/ Next
    \/ Deadline

\* The requests are those of InitTwice: the signal does not depend on how
\* the credential was resolved.
SpecDeadline == InitTwice /\ [][NextDeadline]_vars

\* Requests to the four routes, every awaited call returning at some time.
\* An empty Authorization header is read as an absent one and includeRuns
\* "FALSE" as an absent one, so the aggregation requests leave them out.
InitAll ==
    \/ Init /\ header # "" /\ qIncludeRuns # "FALSE"
    \/ InitJobs

NextAll ==
    \/ Next
    \/ RunJobsReturn
    \/ JobLogReturn

SpecAll == InitAll /\ [][NextAll]_vars /\ WF_vars(NextAll)

\* Two requests in progress at once.  Everything a handler reads or writes
\* is a local of its invocation or a property of its own req object; the
\* event loop runs one continuation at a time and goes from one request to
\* the other between two of them.  process.env and the job query, which these
\* two requests do not carry, stay as they are.
Context ==
    [route |-> route, reqUser |-> reqUser, sessionUser |-> sessionUser,
     header |-> header, qOrg |-> qOrg, qIncludeRuns |-> qIncludeRuns,
     pc |-> pc, userId |-> userId, dbResult |-> dbResult, token |-> token,
     source |-> source, githubToken |-> githubToken,
     githubTokenSource |-> githubTokenSource, nextCalls |-> nextCalls,
     calls |-> calls, repos |-> repos, repoIdx |-> repoIdx, wfs |-> wfs,
     wfIdx |-> wfIdx, pipelines |-> pipelines, responses |-> responses]

\* The event loop turns to the other request.
Switch ==
    /\ other # NullRec
    /\ turn' = 3 - turn
    /\ other' = Context
    /\ route' = other.route
    /\ reqUser' = other.reqUser
    /\ sessionUser' = other.sessionUser
    /\ header' = other.header
    /\ qOrg' = other.qOrg
    /\ qIncludeRuns' = other.qIncludeRuns
    /\ pc' = other.pc
    /\ userId' = other.userId
    /\ dbResult' = other.dbResult
    /\ token' = other.token
    /\ source' = other.source
    /\ githubToken' = other.githubToken
    /\ githubTokenSource' = other.githubTokenSource
    /\ nextCalls' = other.nextCalls
    /\ calls' = other.calls
    /\ repos' = other.repos
    /\ repoIdx' = other.repoIdx
    /\ wfs' = other.wfs
    /\ wfIdx' = other.wfIdx
    /\ pipelines' = other.pipelines
    /\ responses' = other.responses
    /\ UNCHANGED <<envPat, qOwner, qRepo, qRun, qJobId, deadlineAt, earlier>>

\* Request 1 is a signed-in user's GET /github/pipelines without a header;
\* request 2 an anonymous GET /pipelines with an x-github-token header and
\* includeRuns=false.  GITHUB_PAT is set.
InitPair ==
    /\ route = "/github/pipelines"
    /\ reqUser = [_id |-> UserId, accessToken |-> NULL]
    /\ sessionUser = UserId
    /\ header = NULL
    /\ envPat = EnvTok
    /\ qOrg = OrgName
    /\ qIncludeRuns = NULL
    /\ qOwner = NULL
    /\ qRepo = NULL
    /\ qRun = NoRun
    /\ qJobId = NULL
    /\ NotStarted
    /\ turn = 1
    /\ other = [Context EXCEPT !.route = "/pipelines", !.reqUser = NullRec,
                                !.sessionUser = NULL, !.header = HdrTok,
                                !.qIncludeRuns = "false"]

NextPair ==
    \/ Next
    \/ Switch

SpecPair == InitPair /\ [][NextPair]_vars

\* The requests for the job routes.
NextJobs ==
    \/ GhStart
    \/ GhDbReturn
    \/ GhSelfTestReturn
    \/ RunJobsReturn
    \/ JobLogReturn

SpecJobs == InitJobs /\ [][NextJobs]_vars

\* ================================================================ claims
Done == pc = "done"

\* What the database step has yielded so far (nothing before it ran).
StoredNow == IF dbResult = NullRec THEN NULL ELSE StoredPat(dbResult)

\* The positions at which ensureGitHubToken has made its selection.
Selected == pc \notin {"start", "db"}

SelfTestCalls == { i \in DOMAIN calls : calls[i].api = "user" }
AggregationCalls == { i \in DOMAIN calls : calls[i].api # "user" }

\* C1: in ensureGitHubToken, when the principal is known and the stored
\* credential decrypts to a non-empty token that passes the self-test, the
\* token attached to the request and sent with every later call is the stored
\* one and its provenance is 'db', whatever the header and GITHUB_PAT hold.
C1_StoredTokenSelected ==
    ( /\ route = "/github/pipelines"
      /\ Truthy(userId)
      /\ dbResult # NullRec
      /\ dbResult.kind = "user"
      /\ Truthy(decrypt(dbResult.patEnc))
      /\ \E i \in SelfTestCalls : calls[i].res = Ok )
    => /\ githubToken = decrypt(dbResult.patEnc)
       /\ githubTokenSource = "db"
       /\ \A i \in DOMAIN calls : calls[i].token = decrypt(dbResult.patEnc)

\* A stored token won against a header and an environment token and the
\* aggregation ran with it.
C1_Witness ==
    /\ Done
    /\ githubTokenSource = "db"
    /\ githubToken = DbTok
    /\ header = HdrTok
    /\ envPat = EnvTok
    /\ Len(responses) = 1
    /\ responses[1].status = 200
    /\ Len(pipelines) > 0

\* The first source that holds a token, stated from the request.
FirstPresentToken ==
    IF Truthy(StoredNow) THEN StoredNow
    ELSE IF Truthy(header) THEN header
    ELSE envPat

\* C2: when the selected credential fails the self-test, resolution ends
\* with one 401 response; exactly one self-test call was made, with the
\* selected token (the first present source's), no other token was tried, no
\* other call was made and the route handler was not invoked.  A stored
\* invalid credential is therefore never masked by a header or environment
\* token.
C2_InvalidCredentialIs401 ==
    /\ Cardinality(SelfTestCalls) <= 1
    /\ \A i \in SelfTestCalls :
          calls[i].res # Ok =>
             /\ Done
             /\ Len(calls) = 1
             /\ calls[i].token = FirstPresentToken
             /\ Len(responses) = 1
             /\ responses[1].status = 401
             /\ responses[1].body = <<>>
             /\ nextCalls = 0
             /\ githubToken = NULL
             /\ pipelines = <<>>

\* A stored credential failed the self-test although the header and the
\* environment hold tokens.
C2_Witness ==
    /\ Done
    /\ source = "db"
    /\ header = HdrTok
    /\ envPat = EnvTok
    /\ Len(calls) = 1
    /\ calls[1].res.status = 403
    /\ responses[1].status = 401

\* C3: in ensureGitHubToken, when no stored credential is selected and a
\* header token is present, the header token is selected (provenance
\* 'header') even if GITHUB_PAT is set; the environment default is selected
\* (provenance 'env') only when neither a stored credential nor a header
\* token is present.  What next() hands on is that selection.
C3_HeaderBeforeEnv ==
    (route = "/github/pipelines" /\ Selected) =>
       /\ (~Truthy(StoredNow) /\ Truthy(header)) =>
              (token = header /\ source = "header")
       /\ source = "env" <=>
              (~Truthy(StoredNow) /\ ~Truthy(header) /\ Truthy(envPat))
       /\ source = "env" => token = envPat
       /\ nextCalls > 0 => (githubToken = token /\ githubTokenSource = source)

\* A header token was selected and handed on although GITHUB_PAT is set and a
\* principal is known whose stored value does not decrypt.
C3_Witness ==
    /\ route = "/github/pipelines"
    /\ Truthy(userId)
    /\ dbResult # NullRec
    /\ githubTokenSource = "header"
    /\ githubToken = HdrTok
    /\ envPat = EnvTok
    /\ nextCalls = 1

\* A request for which the environment default was selected and handed on.
C3_WitnessEnv ==
    /\ githubTokenSource = "env"
    /\ githubToken = EnvTok
    /\ header = ""

\* The sources the route reads hold no token: stored credential, header and
\* GITHUB_PAT in ensureGitHubToken; OAuth access token, header and GITHUB_PAT
\* on top-level /pipelines.
NoSourceHasToken ==
    /\ ~Truthy(header)
    /\ ~Truthy(envPat)
    /\ IF route = "/github/pipelines"
       THEN ~Truthy(StoredNow)
       ELSE reqUser = NullRec \/ ~Truthy(reqUser.accessToken)

\* C4 as stated: with no stored credential, no header and no environment
\* default the request ends with a 401, no remote call and no handler run.
C4_Original ==
    (Done /\ ~Truthy(StoredNow) /\ ~Truthy(header) /\ ~Truthy(envPat)) =>
       /\ Len(responses) = 1
       /\ responses[1].status = 401
       /\ calls = <<>>
       /\ nextCalls = 0

\* C4 (amended): when none of the sources the route reads yields a token, no
\* remote call of any kind is made (not even the self-test), the route
\* handler or aggregation never runs, and the one response is a 401 -- except
\* on top-level /pipelines without an org parameter, which the earlier org
\* check answers with 400.
C4_NoCredential ==
    (NoSourceHasToken /\ (route = "/github/pipelines" => Selected)
                      /\ (route = "/pipelines" => pc # "start")) =>
       /\ Done
       /\ calls = <<>>
       /\ nextCalls = 0
       /\ pipelines = <<>>
       /\ Len(responses) = 1
       /\ responses[1].body = <<>>
       /\ responses[1].status =
             IF route = "/pipelines" /\ ~Truthy(qOrg) THEN 400 ELSE 401

\* A known principal whose stored value does not decrypt, no header and no
\* environment default: answered 401.
C4_Witness ==
    /\ Done
    /\ route = "/github/pipelines"
    /\ dbResult # NullRec
    /\ dbResult.kind = "user"
    /\ NoSourceHasToken
    /\ responses[1].status = 401

\* The top-level route with an org and no token in any of its sources.
C4_WitnessTop ==
    /\ Done
    /\ route = "/pipelines"
    /\ Truthy(qOrg)
    /\ NoSourceHasToken
    /\ responses[1].status = 401

OrgCalls == { i \in DOMAIN calls : calls[i].api = "orgrepos" }
UserCalls == { i \in DOMAIN calls : calls[i].api = "userrepos" }
WorkflowCalls == { i \in DOMAIN calls : calls[i].api = "workflows" }

\* The status an error response carries for a propagated failure.
PropagatedStatus(e) == IF e.status = NoStatus THEN 500 ELSE e.status

\* C5 as stated: on both aggregating routes every repository-listing,
\* workflow-listing or run-listing call is preceded by a successful self-test
\* of the token it carries.
C5_SelfTestBeforeAggregation ==
    \A i \in AggregationCalls :
       \E j \in SelfTestCalls :
          /\ j < i
          /\ calls[j].res = Ok
          /\ calls[j].token = calls[i].token

\* C6: the organization-scoped listing is called first; the user-scoped
\* listing is called if and only if it failed with 404, and then exactly
\* once; any other failure of the organization-scoped listing (other status,
\* or none) ends the request with that failure and no user-scoped call.
C6_OrgThenUserOn404 ==
    /\ Cardinality(OrgCalls) <= 1
    /\ Cardinality(UserCalls) <= 1
    /\ \A i \in AggregationCalls :
          calls[i].api # "orgrepos" => \E j \in OrgCalls : j < i
    /\ \A i \in UserCalls :
          /\ i > 1
          /\ calls[i - 1].api = "orgrepos"
          /\ calls[i - 1].res.status = 404
    /\ pc = "userrepos" => (Len(calls) \in OrgCalls /\ UserCalls = {})
    /\ \A i \in OrgCalls :
          /\ calls[i].res.status = 404 =>
                IF i = Len(calls) THEN pc = "userrepos"
                ELSE calls[i + 1].api = "userrepos"
          /\ (calls[i].res # Ok /\ calls[i].res.status # 404) =>
                /\ Done
                /\ i = Len(calls)
                /\ UserCalls = {}
                /\ Len(responses) = 1
                /\ responses[1].status = PropagatedStatus(calls[i].res)
                /\ responses[1].error = Or(calls[i].res.message, calls[i].res.emessage)
                /\ responses[1].body = <<>>

\* The organization listing answered 404, the user listing succeeded and the
\* aggregation returned Pipelines of the user's repositories.
C6_Witness ==
    /\ Done
    /\ \E i \in OrgCalls : calls[i].res.status = 404
    /\ \E i \in UserCalls : calls[i].res = Ok
    /\ responses[1].status = 200
    /\ Len(responses[1].body) > 0

\* The organization listing failed without a status: answered 500, no user
\* listing.
C6_WitnessNetwork ==
    /\ Done
    /\ \E i \in OrgCalls : calls[i].res.status = NoStatus
    /\ UserCalls = {}
    /\ responses[1].status = 500

\* Position of a repository in the remote's listing order.
RepoIndex(name) == CHOOSE k \in DOMAIN RepoNames : RepoNames[k] = name

\* C7: a workflow listing that fails with 403, 404 or 409 leaves the
\* repository without Pipelines, is not reported to the caller, and the
\* loop goes on with the next repository (or returns the list after the
\* last one).  Repos A (2 workflows) and B (403) give a 200 with exactly A's
\* two Pipelines.
C7_SkippedRepository ==
    /\ \A i \in WorkflowCalls :
          calls[i].res.status \in {403, 404, 409} =>
             LET k == RepoIndex(calls[i].repo) IN
             /\ \A p \in DOMAIN pipelines : pipelines[p].repo # calls[i].repo
             /\ IF i = Len(calls)
                THEN IF k < Len(repos)
                     THEN pc = "workflows" /\ repoIdx = k + 1 /\ responses = <<>>
                     ELSE /\ Done
                          /\ Len(responses) = 1
                          /\ responses[1].status = 200
                          /\ responses[1].body = pipelines
                ELSE /\ calls[i + 1].api = "workflows"
                     /\ calls[i + 1].repo = RepoNames[k + 1]
             /\ Done =>
                   \/ responses[1].status = 200
                   \/ /\ i < Len(calls)
                      /\ calls[Len(calls)].res # Ok
                      /\ responses[1].status = PropagatedStatus(calls[Len(calls)].res)
    /\ ( /\ Done
         /\ Len(repos) = 2
         /\ \E i \in WorkflowCalls :
               calls[i].repo = "A" /\ calls[i].res = Ok /\ Len(calls[i].data) = 2
         /\ \E i \in WorkflowCalls : calls[i].repo = "B" /\ calls[i].res.status = 403
         /\ \A i \in DOMAIN calls : calls[i].repo # "B" => calls[i].res = Ok )
       => /\ responses[1].status = 200
          /\ Len(responses[1].body) = 2
          /\ \A p \in 1..2 : responses[1].body[p].repo = "A"

\* The scenario: A listed two workflows with one run each, B's listing was
\* forbidden; the answer is a 200 with two Pipelines.
C7_Witness ==
    /\ Done
    /\ Len(repos) = 2
    /\ \E i \in WorkflowCalls :
          /\ calls[i].repo = "B"
          /\ calls[i].res.status = 403
          /\ ~calls[i].res.rateLimited
    /\ responses[1].status = 200
    /\ Len(responses[1].body) = 2
    /\ \A p \in 1..2 : responses[1].body[p].latest_run # NullRec

\* The first of two repositories was skipped with 409 and the second one is
\* being processed.
C7_WitnessContinues ==
    /\ pc = "runs"
    /\ repoIdx = 2
    /\ \E i \in WorkflowCalls : calls[i].repo = "A" /\ calls[i].res.status = 409

\* C8: a workflow listing that fails with a status outside {403, 404, 409},
\* or with none, ends the aggregation with an error response carrying that
\* status (500 when there is none); no Pipeline list is returned and no
\* further remote call is made.
C8_FatalWorkflowFailure ==
    \A i \in WorkflowCalls :
       (calls[i].res # Ok /\ calls[i].res.status \notin {403, 404, 409}) =>
          /\ Done
          /\ i = Len(calls)
          /\ Len(responses) = 1
          /\ responses[1].status = PropagatedStatus(calls[i].res)
          /\ responses[1].error # NULL
          /\ responses[1].body = <<>>

\* The first of two repositories answered 429 on its workflow listing: the
\* request ended there with a 429.
C8_Witness ==
    /\ Done
    /\ Len(repos) = 2
    /\ calls[Len(calls)].api = "workflows"
    /\ calls[Len(calls)].repo = "A"
    /\ calls[Len(calls)].res.status = 429
    /\ responses[1].status = 429

\* A network error on the second repository's listing after the first one
\* contributed Pipelines: a 500 without a list.
C8_WitnessNetwork ==
    /\ Done
    /\ Len(pipelines) > 0
    /\ calls[Len(calls)].api = "workflows"
    /\ calls[Len(calls)].res.status = NoStatus
    /\ responses[1].status = 500
    /\ responses[1].body = <<>>

\* What the remote answered for a repository's workflow listing and for a
\* workflow's latest-run call, read from the call log.
WorkflowCallOf(name) ==
    calls[CHOOSE i \in WorkflowCalls : calls[i].repo = name]
RunCallOf(name, wfId) ==
    calls[CHOOSE i \in DOMAIN calls :
             calls[i].api = "runs" /\ calls[i].repo = name /\ calls[i].wf = wfId]

\* The Pipelines of the k-th enumerated repository, from the remote's
\* answers: one per listed workflow, in listed order.
ExpectedOf(k) ==
    LET repo == repos[k]
        listed == WorkflowCallOf(repo.name).data
    IN  [j \in 1..Len(listed) |->
           [owner |-> IF repo.owner \in {NULL, ""} THEN qOrg ELSE repo.owner,
            repo |-> repo.name,
            workflowId |-> listed[j].id,
            name |-> listed[j].name,
            latest_run |->
               IF qIncludeRuns \in {"false", "FALSE"} THEN NullRec
               ELSE LET runs == RunCallOf(repo.name, listed[j].id).data IN
                    IF runs = <<>> THEN NullRec
                    ELSE [runId |-> runs[1].id, status |-> runs[1].status,
                          conclusion |-> runs[1].conclusion]]]

\* Concatenation of the Pipelines of repositories 1..n other than k.
RECURSIVE ExpectedExcept(_, _)
ExpectedExcept(n, k) ==
    IF n = 0 THEN <<>>
    ELSE ExpectedExcept(n - 1, k) \o (IF n = k THEN <<>> ELSE ExpectedOf(n))

\* Repository k's workflow listing answered 404 and every other call
\* succeeded.
OnlyFailureIs404Of(k) ==
    /\ \E i \in WorkflowCalls :
          /\ calls[i].repo = repos[k].name
          /\ calls[i].res.status = 404
          /\ \A j \in DOMAIN calls : j # i => calls[j].res = Ok

C9_WitnessFirst ==
    /\ Done
    /\ Len(repos) = 2
    /\ OnlyFailureIs404Of(1)
    /\ Len(responses[1].body) = 1
    /\ responses[1].body[1].repo = "B"
    /\ responses[1].body[1].owner = OrgName

\* C10 as stated: a rate-limit response on any call of the aggregation is
\* never absorbed; no 200 list is returned by an aggregation one of whose
\* calls was rate-limited.
C10_RateLimitPropagates ==
    (Done /\ Len(responses) = 1 /\ responses[1].status = 200) =>
       \A i \in AggregationCalls : ~calls[i].res.rateLimited

AggRoutes == {"/github/pipelines", "/pipelines"}
RunCalls == { i \in DOMAIN calls : calls[i].api = "runs" }

\* The request ended with a 200 carrying the Pipeline list.
ReturnedList ==
    /\ Done
    /\ route \in AggRoutes
    /\ Len(responses) = 1
    /\ responses[1].status = 200

\* Number of entries of a list that belong to a repository.
CountOfRepo(list, name) == Cardinality({ p \in DOMAIN list : list[p].repo = name })

\* C11 as stated: in a returned list every repository whose workflow listing
\* succeeded has exactly one Pipeline per listed workflow, never a proper
\* subset, whatever the latest-run fetches did.
C11_OnePipelinePerListedWorkflow ==
    ReturnedList =>
       \A i \in WorkflowCalls :
          calls[i].res = Ok =>
             CountOfRepo(responses[1].body, calls[i].repo) = Len(calls[i].data)

\* C12 as stated: the aggregation ends with an error response only when the
\* failure came from token resolution, repository enumeration or workflow
\* listing; a failed latest-run fetch never turns into an error response.
C12_ErrorOnlyFromResolutionEnumerationListing ==
    (Done /\ route \in AggRoutes /\ responses[1].status # 200) =>
       \/ calls = <<>>
       \/ calls[Len(calls)].api \in {"user", "orgrepos", "userrepos", "workflows"}

\* C13: a latest-run call that succeeds with an empty run list makes
\* fetchLatestRun return null; the workflow's Pipeline is emitted with
\* latest_run = null, the empty list causes no error response and the
\* Pipeline stays in the returned list.
C13_NoRunIsNull ==
    \A i \in RunCalls :
       (calls[i].res = Ok /\ calls[i].data = <<>>) =>
          /\ \E p \in DOMAIN pipelines :
                /\ pipelines[p].repo = calls[i].repo
                /\ pipelines[p].workflowId = calls[i].wf
                /\ pipelines[p].latest_run = NullRec
          /\ (Done /\ i = Len(calls)) => responses[1].status = 200
          /\ ReturnedList =>
                \E p \in DOMAIN responses[1].body :
                   /\ responses[1].body[p].repo = calls[i].repo
                   /\ responses[1].body[p].workflowId = calls[i].wf
                   /\ responses[1].body[p].latest_run = NullRec

\* A list was returned in which one workflow has a run and another has none.
C13_Witness ==
    /\ ReturnedList
    /\ \E i \in RunCalls : calls[i].res = Ok /\ calls[i].data = <<>>
    /\ \E p, q \in DOMAIN responses[1].body :
          /\ responses[1].body[p].latest_run = NullRec
          /\ responses[1].body[q].latest_run # NullRec

\* The (owner, repo, workflowId) triples of a list, in order.
Triples(list) ==
    [p \in DOMAIN list |->
       <<list[p].owner, list[p].repo, list[p].workflowId>>]

\* The triples of the workflows the remote listed for repositories 1..n, in
\* enumeration order and listed order.
RECURSIVE ListedTriples(_)
ListedTriples(n) ==
    IF n = 0 THEN <<>>
    ELSE LET repo == repos[n]
             listed == WorkflowCallOf(repo.name).data
         IN  ListedTriples(n - 1) \o
             [j \in 1..Len(listed) |->
                <<IF repo.owner \in {NULL, ""} THEN qOrg ELSE repo.owner,
                  repo.name, listed[j].id>>]

\* C14: with includeRuns=false no latest-run call is made and every Pipeline
\* has latest_run = null; the Pipelines and their order are those of the
\* workflows the remote listed, which is also what a request with runs
\* included returns when all its run calls succeed.
C14_IncludeRunsFalse ==
    /\ (route \in AggRoutes /\ qIncludeRuns = "false") =>
          /\ RunCalls = {}
          /\ \A p \in DOMAIN pipelines : pipelines[p].latest_run = NullRec
    /\ (ReturnedList /\ \A i \in DOMAIN calls : calls[i].res = Ok) =>
          Triples(responses[1].body) = ListedTriples(Len(repos))

\* A request with includeRuns=false returned three Pipelines of two
\* repositories, all without a run.
C14_Witness ==
    /\ ReturnedList
    /\ qIncludeRuns = "false"
    /\ Len(repos) = 2
    /\ Len(responses[1].body) = 3
    /\ RunCalls = {}

\* The same answer with runs included and every run call successful.
C14_WitnessWithRuns ==
    /\ ReturnedList
    /\ qIncludeRuns = NULL
    /\ Len(responses[1].body) = 3
    /\ Cardinality(RunCalls) = 3
    /\ \A i \in DOMAIN calls : calls[i].res = Ok

\* C15: in a returned list no two entries share the (owner, repo,
\* workflowId) triple.
C15_UniqueTriples ==
    ReturnedList =>
       \A p, q \in DOMAIN responses[1].body :
          Triples(responses[1].body)[p] = Triples(responses[1].body)[q] => p = q

\* A returned list with entries of two repositories.
C15_Witness ==
    /\ ReturnedList
    /\ Len(responses[1].body) = 3
    /\ responses[1].body[1].repo # responses[1].body[3].repo

\* C16: two aggregations with the same organization, credential sources and
\* includeRuns flag against the same remote state produce the same response.
C16_SameInputsSameResponse ==
    (Done /\ earlier # NullRec) => responses = earlier.responses

\* Both requests returned the same list of three Pipelines.
C16_Witness ==
    /\ Done
    /\ earlier # NullRec
    /\ responses = earlier.responses
    /\ calls = earlier.calls
    /\ responses[1].status = 200
    /\ Len(responses[1].body) = 3

\* Both requests ended with the same error of a workflow listing.
C16_WitnessError ==
    /\ Done
    /\ earlier # NullRec
    /\ responses = earlier.responses
    /\ responses[1].status = 500
    /\ calls[Len(calls)].api = "workflows"

\* The jobs call of a request for a job route has returned and the request
\* was answered.
JobsAnswered(r) ==
    /\ Done
    /\ route = r
    /\ calls # <<>>
    /\ calls[Len(calls)].api = "jobs"

JobsResult == calls[Len(calls)].res
ListedJobs ==
    IF "jobs" \in DOMAIN calls[Len(calls)].data
    THEN calls[Len(calls)].data.jobs
    ELSE <<>>

\* The positions of the listed jobs whose id, written out, is the jobId of
\* the query.
Requested == { k \in DOMAIN ListedJobs : ToString(ListedJobs[k].id) = qJobId }

\* The positions of the step lines in a text.
StepLinesOf(text) == { i \in DOMAIN text : text[i].line = " - #" }

\* C17 as stated: the text synthesized for a job with n steps has exactly n
\* step lines between the four header lines and the two closing lines, and
\* they are in increasing step-number order even when the remote listed the
\* steps in another order.
C17_StepLinesInNumberOrder ==
    (JobsAnswered("/github/job-log") /\ JobsResult = Ok /\ Requested # {}) =>
       LET job == ListedJobs[CHOOSE k \in Requested : TRUE]
           n == IF "steps" \in DOMAIN job THEN Len(job.steps) ELSE 0
           text == responses[1].body.text
       IN  /\ responses[1].status = 200
           /\ Len(text) = n + 6
           /\ StepLinesOf(text) = 5..(n + 4)
           /\ text[1].line = "Job:"
           /\ text[4].line = "Steps:"
           /\ text[n + 6] = NoteLine
           /\ \A i, j \in 5..(n + 4) : i < j => text[i].number < text[j].number

\* C18: when the jobs call succeeds and no listed job has the requested
\* jobId, compared as strings, /github/job-log answers 200 with the
\* placeholder text; it answers with an error status only when the jobs call
\* itself failed.
C18_NoJobPlaceholder ==
    JobsAnswered("/github/job-log") =>
       /\ (JobsResult = Ok /\ Requested = {}) =>
             /\ responses[1].status = 200
             /\ responses[1].error = NULL
             /\ responses[1].body.text =
                   <<[line |-> "(No job found to assemble log)"]>>
       /\ responses[1].status # 200 => JobsResult # Ok

\* The run has jobs, none of them the requested one.
C18_Witness ==
    /\ JobsAnswered("/github/job-log")
    /\ JobsResult = Ok
    /\ Len(ListedJobs) = 2
    /\ qJobId = "999"
    /\ responses[1].status = 200

\* Job 502 is listed and "0502" requested: equal as numbers, not as strings.
C18_WitnessString ==
    /\ JobsAnswered("/github/job-log")
    /\ JobsResult = Ok
    /\ \E k \in DOMAIN ListedJobs : ListedJobs[k].id = 502
    /\ qJobId = "0502"
    /\ responses[1].status = 200

\* The steps the remote listed for a job.
ListedSteps(job) == IF "steps" \in DOMAIN job THEN job.steps ELSE <<>>

\* C19: /github/run-jobs answers 200 whenever the jobs call succeeds, an
\* empty job list included (jobs = [], total_count = 0); the jobs and the
\* steps of each job are those the remote listed, in the remote's order,
\* none added, dropped or reordered; the request fails only when the jobs
\* call failed.
C19_RunJobsVerbatim ==
    JobsAnswered("/github/run-jobs") =>
       /\ JobsResult = Ok =>
             /\ responses[1].status = 200
             /\ Len(responses[1].body.jobs) = Len(ListedJobs)
             /\ \A i \in DOMAIN ListedJobs :
                   LET out == responses[1].body.jobs[i]
                       raw == ListedJobs[i]
                   IN  /\ out.id = raw.id
                       /\ out.name = raw.name
                       /\ out.url = raw.html_url
                       /\ Len(out.steps) = Len(ListedSteps(raw))
                       /\ \A k \in DOMAIN out.steps :
                             /\ out.steps[k].number = ListedSteps(raw)[k].number
                             /\ out.steps[k].name = ListedSteps(raw)[k].name
             /\ ListedJobs = <<>> =>
                   /\ responses[1].body.jobs = <<>>
                   /\ responses[1].body.total_count = 0
       /\ responses[1].status # 200 => JobsResult # Ok

\* Two jobs were listed, the second with its steps out of number order.
C19_Witness ==
    /\ JobsAnswered("/github/run-jobs")
    /\ JobsResult = Ok
    /\ Len(responses[1].body.jobs) = 2
    /\ responses[1].body.total_count = 2
    /\ Len(responses[1].body.jobs[2].steps) = 3
    /\ responses[1].body.jobs[2].steps[1].number = 3
    /\ responses[1].body.jobs[1].steps = <<>>

\* The run has no job.
C19_WitnessEmpty ==
    /\ JobsAnswered("/github/run-jobs")
    /\ JobsResult = Ok
    /\ ListedJobs = <<>>
    /\ responses[1].body.total_count = 0

\* C20 as stated: when the failure of a remote call is surfaced, the error
\* message of the response is the message the remote supplied, or the
\* transport error's message; the handlers never put one of their own.
C20_RemoteMessagePassedThrough ==
    (/\ Done
     /\ calls # <<>>
     /\ calls[Len(calls)].res # Ok
     /\ responses[1].status # 200) =>
        responses[1].error =
           (IF calls[Len(calls)].res.message \notin {NULL, ""}
            THEN calls[Len(calls)].res.message
            ELSE calls[Len(calls)].res.emessage)

\* C21: when the organization listing and the user listing both fail with
\* 404, the aggregation ends with a 404 response and no workflow or run call
\* is made; the aggregation answers 404 in that case only (a 404 of a
\* repository's workflow listing or of a run call never yields a 404
\* response).
C21_NotFoundOnlyWhenBothListingsAre404 ==
    (Done /\ route \in AggRoutes) =>
       LET both == /\ \E i \in OrgCalls : calls[i].res.status = 404
                   /\ \E i \in UserCalls : calls[i].res.status = 404
       IN  /\ both =>
                /\ responses[1].status = 404
                /\ WorkflowCalls = {}
                /\ RunCalls = {}
           /\ responses[1].status = 404 => both

\* Both listings answered 404 and the request ended 404 after two calls of
\* the aggregation.
C21_Witness ==
    /\ Done
    /\ route \in AggRoutes
    /\ \E i \in OrgCalls : calls[i].res.status = 404
    /\ \E i \in UserCalls : calls[i].res.status = 404
    /\ responses[1].status = 404
    /\ Cardinality(AggregationCalls) = 2

\* A workflow listing and a run call answered 404 and the request ended 200.
C21_WitnessAbsorbed404 ==
    /\ ReturnedList
    /\ \E i \in WorkflowCalls : calls[i].res.status = 404
    /\ \E i \in RunCalls : calls[i].res.status = 404

\* C22 as stated: repository enumeration requests successive pages until a
\* page shorter than the page size comes back, so a listing call that
\* returned a full page is followed by a call for the next page.
C22_PagesExhausted ==
    Done =>
       \A i \in OrgCalls \cup UserCalls :
          (calls[i].res = Ok /\ Len(calls[i].data) = PageSize) =>
             \E j \in DOMAIN calls : j > i /\ calls[j].api = calls[i].api

\* C23: within one aggregation no remote call is repeated: the self-test,
\* the organization listing and the user listing are called at most once,
\* the workflow listing at most once per repository and the latest-run call
\* at most once per workflow; after a failed call the only call made in its
\* place is the user listing after the organization listing's failure, every
\* other call that follows a failure is for the next repository.  The log
\* only grows, so it is stated of the latest call in every state: no earlier
\* call has its API, repository and workflow.
C23_NoCallRepeated ==
    (route \in AggRoutes /\ calls # <<>>) =>
       LET n == Len(calls) IN
       /\ \A i \in 1..(n - 1) :
             \/ calls[i].api # calls[n].api
             \/ calls[i].repo # calls[n].repo
             \/ calls[i].wf # calls[n].wf
       /\ (n > 1 /\ calls[n - 1].res # Ok) =>
             \/ calls[n - 1].api = "orgrepos" /\ calls[n].api = "userrepos"
             \/ /\ calls[n - 1].api \in {"workflows", "runs"}
                /\ calls[n].api = "workflows"
                /\ calls[n].repo # calls[n - 1].repo

\* The user listing replaced the organization listing, a workflow listing
\* failed and the aggregation went on to the next repository's calls.
C23_Witness ==
    /\ ReturnedList
    /\ UserCalls # {}
    /\ Cardinality(WorkflowCalls) = 2
    /\ \E i \in WorkflowCalls : calls[i].res # Ok
    /\ RunCalls # {}

\* C24 as stated: when the caller's deadline or cancellation signal fires
\* during an aggregation, the call in flight is abandoned, no further call
\* is made, and the request is answered with the Pipelines accumulated so
\* far and a partial-result indicator.
C24_DeadlineEndsAggregation ==
    (Done /\ deadlineAt # -1) =>
       /\ Len(calls) = deadlineAt
       /\ "partial" \in DOMAIN responses[1]

\* The repositories the listing that succeeded returned, and the place of a
\* repository in it.
Enumerated ==
    LET ok == { i \in OrgCalls \cup UserCalls : calls[i].res = Ok } IN
    IF ok = {} THEN <<>> ELSE calls[CHOOSE i \in ok : TRUE].data
PlaceOfRepo(name) == CHOOSE k \in DOMAIN Enumerated : Enumerated[k].name = name

\* The place of a workflow in the list its repository's listing returned.
PlaceOfWorkflow(name, wfId) ==
    LET listed == WorkflowCallOf(name).data IN
    CHOOSE k \in DOMAIN listed : listed[k].id = wfId

\* C25: the calls of one aggregation are made one after the other in a fixed
\* order: the repository listing first, then for each repository in
\* enumeration order its workflow listing followed by the latest-run calls
\* of its workflows in listed order; no call for a repository is made after
\* a call for a later repository.  The log only grows, so it is stated
\* of the latest call in every state: it is the successor, in that order, of
\* the call made before it.
C25_CallsInFixedOrder ==
    (route \in AggRoutes /\ Len(calls) > 1 /\ calls[Len(calls)].api # "user") =>
       LET prev == calls[Len(calls) - 1]
           this == calls[Len(calls)]
       IN  CASE this.api = "orgrepos" -> prev.api = "user"
             [] this.api = "userrepos" -> prev.api = "orgrepos"
             [] this.api = "workflows" ->
                  IF prev.api \in {"orgrepos", "userrepos"}
                  THEN PlaceOfRepo(this.repo) = 1
                  ELSE PlaceOfRepo(this.repo) = PlaceOfRepo(prev.repo) + 1
             [] this.api = "runs" ->
                  /\ prev.repo = this.repo
                  /\ IF prev.api = "workflows"
                     THEN PlaceOfWorkflow(this.repo, this.wf) = 1
                     ELSE PlaceOfWorkflow(this.repo, this.wf)
                             = PlaceOfWorkflow(this.repo, prev.wf) + 1

\* Two repositories with three workflows: listing, A's workflows and two
\* run calls, B's workflows and one run call.
C25_Witness ==
    /\ Done
    /\ route = "/pipelines"
    /\ Len(calls) = 6
    /\ calls[1].api = "orgrepos"
    /\ calls[2].api = "workflows" /\ calls[2].repo = "A"
    /\ calls[3].api = "runs" /\ calls[4].api = "runs"
    /\ calls[5].api = "workflows" /\ calls[5].repo = "B"
    /\ calls[6].api = "runs" /\ calls[6].repo = "B"

\* The token a request resolves on its own, from its own principal, stored
\* credential and header.
TokenAlone(c) ==
    IF c.route = "/pipelines" THEN TopToken(c.reqUser, c.header, envPat)
    ELSE SelectToken(IF c.dbResult = NullRec THEN NULL ELSE StoredPat(c.dbResult),
                     c.header, envPat).token

\* Every call a request made carries the token the request resolved, which
\* is the one it resolves on its own; what it attached to req is that token.
OwnToken(c) ==
    /\ \A i \in DOMAIN c.calls : c.calls[i].token = c.token
    /\ c.pc \notin {"start", "db"} => c.token = TokenAlone(c)
    /\ c.githubToken \in {NULL, c.token}

\* Every Pipeline a request holds is one of a workflow its own workflow
\* listing of that repository returned, once, with the run its own run call
\* returned; the list it answers with is the one it accumulated.
OwnPipelines(c) ==
    /\ \A p \in DOMAIN c.pipelines :
          LET e == c.pipelines[p] IN
          /\ \E i \in DOMAIN c.calls :
                /\ c.calls[i].api = "workflows"
                /\ c.calls[i].res = Ok
                /\ c.calls[i].repo = e.repo
                /\ \E k \in DOMAIN c.calls[i].data : c.calls[i].data[k].id = e.workflowId
          /\ e.latest_run # NullRec =>
                \E i \in DOMAIN c.calls :
                   /\ c.calls[i].api = "runs"
                   /\ c.calls[i].res = Ok
                   /\ c.calls[i].repo = e.repo
                   /\ c.calls[i].wf = e.workflowId
                   /\ c.calls[i].data # <<>>
          /\ \A q \in DOMAIN c.pipelines :
                (c.pipelines[q].repo = e.repo
                 /\ c.pipelines[q].workflowId = e.workflowId) => q = p
    /\ (c.pc = "done" /\ c.responses[1].status = 200) =>
          c.responses[1].body = c.pipelines

C26_WitnessBothDone ==
    /\ other # NullRec
    /\ Done
    /\ other.pc = "done"
    /\ responses[1].status = 200
    /\ other.responses[1].status = 200
    /\ Len(responses[1].body) = 2
    /\ Len(other.responses[1].body) = 2
    /\ token # other.token

\* C27: top-level /pipelines takes the OAuth session access token, else the
\* x-github-token header, else GITHUB_PAT, first present wins; it never
\* looks up the principal's stored credential, so with the same inputs it
\* can send another token than /github/pipelines does.
C27_TopLevelTokenOrder ==
    route = "/pipelines" =>
       /\ dbResult = NullRec
       /\ source = "none"
       /\ (pc # "start" /\ qOrg \notin {NULL, ""}) =>
             token = (IF reqUser # NullRec /\ reqUser.accessToken \notin {NULL, ""}
                         THEN reqUser.accessToken
                      ELSE IF header \notin {NULL, ""} THEN header
                      ELSE envPat)
       /\ \A i \in DOMAIN calls : calls[i].token = token /\ token # DbTok

\* A signed-in user without OAuth token sends a header: top-level /pipelines
\* aggregates with the header's token.
C27_Witness ==
    /\ route = "/pipelines"
    /\ reqUser = [_id |-> UserId, accessToken |-> NULL]
    /\ header = HdrTok
    /\ envPat = EnvTok
    /\ ReturnedList
    /\ calls # <<>>
    /\ token = HdrTok

\* The same inputs on /github/pipelines: the stored credential is used.
C27_WitnessStored ==
    /\ route = "/github/pipelines"
    /\ reqUser = [_id |-> UserId, accessToken |-> NULL]
    /\ header = HdrTok
    /\ envPat = EnvTok
    /\ ReturnedList
    /\ githubToken = DbTok
    /\ \E i \in AggregationCalls : calls[i].token = DbTok

\* C28: ensureGitHubToken ends in exactly one of two ways: it calls next()
\* once and sends nothing, or it sends one 401 and never calls next().
\* req.githubToken and req.githubTokenSource are set on the first path only,
\* after a successful self-test, and the source is 'db', 'header' or 'env',
\* the one the token came from.
C28_NextOrUnauthorized ==
    route \in GhRoutes =>
       IF pc \in {"start", "db", "selftest"}
       THEN /\ nextCalls = 0
            /\ responses = <<>>
            /\ githubToken = NULL
            /\ githubTokenSource = NULL
       ELSE \/ /\ nextCalls = 1
               /\ Cardinality(SelfTestCalls) = 1
               /\ \A i \in SelfTestCalls : calls[i].res = Ok /\ calls[i].token = githubToken
               /\ githubToken \notin {NULL, ""}
               /\ githubTokenSource \in {"db", "header", "env"}
               /\ githubTokenSource = "db" => githubToken = StoredNow
               /\ githubTokenSource = "header" => githubToken = header
               /\ githubTokenSource = "env" => githubToken = envPat
               /\ Len(responses) <= 1
            \/ /\ nextCalls = 0
               /\ githubToken = NULL
               /\ githubTokenSource = NULL
               /\ Done
               /\ Len(responses) = 1
               /\ responses[1].status = 401
               /\ AggregationCalls = {}
               /\ \A i \in SelfTestCalls : calls[i].res # Ok

\* next() was called with the header's token attached.
C28_Witness ==
    /\ route = "/github/pipelines"
    /\ nextCalls = 1
    /\ githubTokenSource = "header"
    /\ githubToken = HdrTok
    /\ pc = "workflows"

\* The middleware answered 401 after a failed self-test.
C28_WitnessUnauthorized ==
    /\ route = "/github/pipelines"
    /\ Done
    /\ nextCalls = 0
    /\ Len(calls) = 1
    /\ calls[1].res.status = 500
    /\ responses[1].status = 401

\* The lookup threw, found no user, or found a value that does not decrypt
\* to a token: a part is missing, the tag does not authenticate, or the
\* plaintext is empty.
StoredUnusable ==
    /\ dbResult # NullRec
    /\ \/ dbResult.kind \in {"throws", "nouser"}
       \/ dbResult.patEnc.iv = ""
       \/ dbResult.patEnc.tag = ""
       \/ dbResult.patEnc.data = ""
       \/ ~dbResult.patEnc.tagOk
       \/ dbResult.patEnc.plain = ""

\* C29: when the principal is known but the lookup throws, the user record
\* is missing or the stored value cannot be decrypted, the stored source
\* counts as absent: the header and then GITHUB_PAT are consulted, the
\* provenance is never 'db', and the request fails only with the 401 of a
\* request without any token or of a failed self-test.
C29_UnusableStoredCredentialIsAbsent ==
    (route \in GhRoutes /\ userId \notin {NULL, ""} /\ StoredUnusable) =>
       /\ source # "db"
       /\ githubTokenSource # "db"
       /\ IF header \notin {NULL, ""}
          THEN token = header /\ source = "header"
          ELSE IF envPat \notin {NULL, ""}
          THEN token = envPat /\ source = "env"
          ELSE /\ token = NULL
               /\ source = "none"
               /\ calls = <<>>
               /\ Done
               /\ responses = <<MissingTokenResponse>>
       /\ (Done /\ nextCalls = 0) => responses[1].status = 401

\* The lookup threw and the aggregation ran with the header's token.
C29_Witness ==
    /\ route = "/github/pipelines"
    /\ dbResult # NullRec
    /\ dbResult.kind = "throws"
    /\ githubTokenSource = "header"
    /\ ReturnedList
    /\ \A i \in DOMAIN calls : calls[i].token = HdrTok

\* The stored value was tampered with and GITHUB_PAT took its place.
C29_WitnessTampered ==
    /\ route = "/github/pipelines"
    /\ dbResult # NullRec
    /\ dbResult.kind = "user"
    /\ dbResult.patEnc.data # ""
    /\ ~dbResult.patEnc.tagOk
    /\ githubTokenSource = "env"
    /\ nextCalls = 1

\* C30: provided every awaited call returns, every request to
\* /github/pipelines, /pipelines, /github/run-jobs and /github/job-log gets
\* exactly one response: there are never two, and from some point on there
\* is one and the request is over.
C30_ExactlyOneResponse ==
    /\ [](Len(responses) <= 1)
    /\ <>[](pc = "done" /\ Len(responses) = 1)

\* A request was answered with a list after a repository was skipped.
C30_Witness ==
    /\ ReturnedList
    /\ Len(responses) = 1
    /\ \E i \in WorkflowCalls : calls[i].res.status = 409

\* A job-log request was answered 400 for a missing parameter.
C30_WitnessValidation ==
    /\ route = "/github/job-log"
    /\ pc = "done"
    /\ nextCalls = 1
    /\ responses = <<ErrorResponse(400, "owner, repo, runId and jobId are required")>>

\* ------------------------------------------------------------------ C31
\* The calls of the aggregation in a call log: all but the self-test.
AggregationOf(cs) == SelectSeq(cs, LAMBDA c : c.api # "user")

\* The request as /github/pipelines handled it and as top-level /pipelines
\* handled it, once both routes have answered it.
BothAnswered == pc = "done" /\ earlier # NullRec /\ earlier.route # route
ByGithub ==
    IF route = "/github/pipelines"
    THEN [calls |-> calls, responses |-> responses]
    ELSE [calls |-> earlier.calls, responses |-> earlier.responses]
ByTop ==
    IF route = "/pipelines"
    THEN [calls |-> calls, responses |-> responses]
    ELSE [calls |-> earlier.calls, responses |-> earlier.responses]

\* The token /github/pipelines resolved passed its self-test and is the one
\* top-level /pipelines resolves from the same request.
SameTestedToken ==
    \E i \in DOMAIN ByGithub.calls :
       /\ ByGithub.calls[i].api = "user"
       /\ ByGithub.calls[i].res = Ok
       /\ ByGithub.calls[i].token = TopToken(reqUser, header, envPat)

\* Both routes made the same aggregation calls, with the same answers, and
\* sent the same status and the same list.
SameCallsStatusAndList ==
    /\ AggregationOf(ByGithub.calls) = AggregationOf(ByTop.calls)
    /\ ByGithub.responses[1].status = ByTop.responses[1].status
    /\ ByGithub.responses[1].body = ByTop.responses[1].body

\* C31 as stated: with the same token, org, includeRuns and remote state and
\* a token that passes the self-test, the two aggregation routes make the
\* same listing, workflow and run calls and send the same status and the
\* same Pipeline list, and their error bodies differ for a 404 only.
C31_Original ==
    (BothAnswered /\ SameTestedToken) =>
       /\ SameCallsStatusAndList
       /\ ByGithub.responses[1].status # 404 =>
             ByGithub.responses[1].error = ByTop.responses[1].error

\* C31 as the code has it: with the same token, org, includeRuns and remote
\* state and a token that passes the self-test, the two aggregation routes
\* make the same listing, workflow and run calls and send the same status
\* and the same Pipeline list; their error bodies differ for a 404 and for
\* the 400 of a missing org, and for nothing else.
C31_RoutesEquivalent ==
    (BothAnswered /\ SameTestedToken) =>
       /\ SameCallsStatusAndList
       /\ (ByGithub.responses[1].status # 404 /\ Truthy(qOrg)) =>
             ByGithub.responses[1].error = ByTop.responses[1].error
       /\ ~Truthy(qOrg) =>
             /\ ByGithub.responses[1] = ErrorResponse(400, "Organization name is required")
             /\ ByTop.responses[1] = ErrorResponse(400, "Organization is required")

\* Both routes answered 200 with the same list of two Pipelines or more.
C31_Witness ==
    /\ BothAnswered
    /\ SameTestedToken
    /\ ByGithub.responses[1].status = 200
    /\ ByTop.responses[1].status = 200
    /\ Len(ByTop.responses[1].body) >= 2
    /\ Len(AggregationOf(ByTop.calls)) >= 3

\* Both listings answered 404: both routes answer 404, with their own
\* error bodies.
C31_Witness404 ==
    /\ BothAnswered
    /\ SameTestedToken
    /\ ByGithub.responses[1].status = 404
    /\ ByTop.responses[1].status = 404
    /\ ByGithub.responses[1].error # ByTop.responses[1].error

\* A remote failure other than a 404 ended both requests with the same
\* status and the same message.
C31_WitnessPassthrough ==
    /\ BothAnswered
    /\ SameTestedToken
    /\ ByGithub.responses[1].status \notin {200, 400, 404}
    /\ ByGithub.responses[1] = ByTop.responses[1]

\* ------------------------------------------------------------------ C32
\* The self-test of the request was made and passed.
SelfTestPassed ==
    /\ Len(calls) = 1
    /\ calls[1].api = "user"
    /\ calls[1].res = Ok
    /\ nextCalls = 1

\* C32: a request without org never leads to a listing, workflow or run
\* call on either aggregation route.  On /github/pipelines the credential
\* chain, self-test included, runs before the org check: the request is
\* answered 400 when its credential passed the self-test and 401 when no
\* credential was found or the one found failed the self-test.  On top-level
\* /pipelines the org check comes first: the request is answered 400 with
\* no token read and no call made, whatever credential it carries.
C32_MissingOrg ==
    (route \in AggRoutes /\ ~Truthy(qOrg)) =>
       /\ AggregationCalls = {}
       /\ pipelines = <<>>
       /\ ~Done => responses = <<>>
       /\ Done =>
             /\ Len(responses) = 1
             /\ responses[1].body = <<>>
             /\ IF route = "/pipelines"
                THEN /\ responses[1] = ErrorResponse(400, "Organization is required")
                     /\ calls = <<>>
                     /\ token = NULL
                ELSE IF SelfTestPassed
                THEN responses[1] = ErrorResponse(400, "Organization name is required")
                ELSE /\ responses[1].status = 401
                     /\ nextCalls = 0
                     /\ IF Truthy(token)
                        THEN /\ Len(calls) = 1
                             /\ calls[1].api = "user"
                             /\ calls[1].res # Ok
                        ELSE calls = <<>>

\* /github/pipelines without org, the header's token passing the self-test:
\* answered 400 after the one self-test call.
C32_Witness ==
    /\ Done
    /\ route = "/github/pipelines"
    /\ ~Truthy(qOrg)
    /\ SelfTestPassed
    /\ githubTokenSource = "header"
    /\ responses[1].status = 400

\* /github/pipelines without org and with a credential that fails the
\* self-test: answered 401.
C32_WitnessUnusable ==
    /\ Done
    /\ route = "/github/pipelines"
    /\ ~Truthy(qOrg)
    /\ Len(calls) = 1
    /\ calls[1].res # Ok
    /\ responses[1].status = 401

\* /github/pipelines without org and without any credential: answered 401
\* with no call made.
C32_WitnessNoCredential ==
    /\ Done
    /\ route = "/github/pipelines"
    /\ ~Truthy(qOrg)
    /\ NoSourceHasToken
    /\ calls = <<>>
    /\ responses[1].status = 401

\* Top-level /pipelines without org and without any credential: answered
\* 400.
C32_WitnessTop ==
    /\ Done
    /\ route = "/pipelines"
    /\ ~Truthy(qOrg)
    /\ NoSourceHasToken
    /\ responses[1].status = 400
====
